---- MODULE Spec2Model ----
(***************************************************************************)
(* A model of lcbo-scraper: the search resolver (search_product), the page *)
(* extractor (scrape_product_page), their composition (get_product) and    *)
(* the sequential run of main over the requested product numbers.          *)
(*                                                                         *)
(* Strings are sequences of atoms (an atom is an indivisible piece of      *)
(* text such as "lcbo.com" or a digit); the empty string is << >>.  An     *)
(* optional value is a sequence of at most one element: None is << >> and  *)
(* Some(v) is <<v>>.  A dict is a set of [k, v] records with unique keys.  *)
(***************************************************************************)
EXTENDS Naturals, Sequences, FiniteSets

VARIABLES numbers, pc, index, url, products, client, created, netlog,
          raised, output, rc, op, arg, returned, ret

vars == <<numbers, pc, index, url, products, client, created, netlog,
          raised, output, rc, op, arg, returned, ret>>

mainVars == <<numbers, pc, index, url, products, client, created, netlog,
              raised, output, rc>>

callVars == <<op, arg, returned, ret>>

(***************************************************************************)
(* Bounds of the model.                                                    *)
(***************************************************************************)
MaxNumbers == 2

MaxResults == 2

MaxUrlLen == 3

MaxTop == 2

MaxLi == 2

MaxDl == 4

(***************************************************************************)
(* Optional values and strings.                                            *)
(***************************************************************************)
None == << >>

Some(v) == <<v>>

EmptyStr == << >>

\* Python truthiness of an Optional[str]: None and "" are falsy.
Truthy(o) == o # None /\ o[1] # EmptyStr

\* Python `sub in s` for two strings.
Contains(s, sub) ==
    \E i \in 0..Len(s) :
        /\ i + Len(sub) <= Len(s)
        /\ SubSeq(s, i + 1, i + Len(sub)) = sub

\* Python `x in lst` for a list.
InList(x, lst) == \E i \in 1..Len(lst) : lst[i] = x

StartsWith(s, pre) == Len(s) >= Len(pre) /\ SubSeq(s, 1, Len(pre)) = pre

\* Python s.replace(old, new): every non-overlapping occurrence, left to right.
RECURSIVE Replace(_, _, _)
Replace(s, old, new) ==
    IF Len(s) < Len(old) \/ old = << >> THEN s
    ELSE IF StartsWith(s, old)
         THEN new \o Replace(SubSeq(s, Len(old) + 1, Len(s)), old, new)
         ELSE <<Head(s)>> \o Replace(Tail(s), old, new)

\* Python s.strip(): whitespace atoms removed at both ends.
IsSpace(a) == a = " "

RECURSIVE LStrip(_)
LStrip(s) == IF s # << >> /\ IsSpace(Head(s)) THEN LStrip(Tail(s)) ELSE s

RECURSIVE RStrip(_)
RStrip(s) ==
    IF s # << >> /\ IsSpace(s[Len(s)]) THEN RStrip(SubSeq(s, 1, Len(s) - 1)) ELSE s

Strip(s) == RStrip(LStrip(s))

(***************************************************************************)
(* normalize_product_url                                                   *)
(***************************************************************************)
WholesalePrefix == <<"wholesale.", "lcbo.com", "/b2b_en/">>

ConsumerPrefix == <<"www.", "lcbo.com", "/en/">>

\* A faulty variant: only the first occurrence is rewritten (replace(.., 1))
\* and the host is not checked.
RECURSIVE normalize_any_host(_)
normalize_any_host(u) ==
    IF Len(u) < 3 THEN u
    ELSE IF u[1] = "wholesale." /\ u[3] = "/b2b_en/"
         THEN <<"www.", u[2], "/en/">> \o SubSeq(u, 4, Len(u))
         ELSE <<Head(u)>> \o normalize_any_host(Tail(u))

normalize_product_url(u) ==
    IF Contains(u, WholesalePrefix)
    THEN Replace(u, WholesalePrefix, ConsumerPrefix)
    ELSE u

(***************************************************************************)
(* Product (models.py)                                                     *)
(***************************************************************************)
Product(product_number, name, purl, price, details) ==
    [product_number |-> product_number, name |-> name, url |-> purl,
     price |-> price, details |-> details]

\* Product(product_number=...) with every other field at its default.
BareProduct(product_number) == Product(product_number, None, None, None, {})

(***************************************************************************)
(* search_product                                                          *)
(*                                                                         *)
(* A response of the search call is [kind, results]:                       *)
(*   "RequestError"    client.post raised httpx.RequestError               *)
(*   "HTTPStatusError" raise_for_status raised httpx.HTTPStatusError       *)
(*   "MalformedBody"   a success status whose body is not a JSON object    *)
(*                     holding a list of result objects: response.json()   *)
(*                     or the accesses after it raise ValueError,          *)
(*                     AttributeError or TypeError                         *)
(*   "ok"              a success status and a well-formed body; results is *)
(*                     the ranked list of candidates [clickUri, ec_skus],  *)
(*                     clickUri optional                                   *)
(* The outcome of a call is [kind |-> "return", value] or "raise".         *)
(***************************************************************************)
Return(v) == [kind |-> "return", value |-> v]

Raise == [kind |-> "raise", value |-> None]

Candidate(clickUri, ec_skus) == [clickUri |-> clickUri, ec_skus |-> ec_skus]

\* result.get("clickUri", "")
ClickUriOrEmpty(result) ==
    IF result.clickUri = None THEN EmptyStr ELSE result.clickUri[1]

\* A faulty variant: the match looks at the SKU list only.
MatchesSkuOnly(result, product_number) == InList(product_number, result.ec_skus)

\* line 138: product_number in ec_skus or product_number in click_uri
Matches(result, product_number) ==
    \/ InList(product_number, result.ec_skus)
    \/ Contains(ClickUriOrEmpty(result), product_number)

\* The for loop of lines 133-141: the index of the first matching result, 0
\* when the loop ends without a match.
RECURSIVE MatchLoop(_, _, _)
MatchLoop(results, product_number, i) ==
    IF i > Len(results) THEN 0
    ELSE IF Matches(results[i], product_number) THEN i
         ELSE MatchLoop(results, product_number, i + 1)

\* A faulty variant: the except clause for HTTPStatusError is missing.
search_product_unguarded(product_number, resp) ==
    IF resp.kind = "RequestError" THEN Return(None)
    ELSE IF resp.kind \in {"MalformedBody", "HTTPStatusError"} THEN Raise
    ELSE IF resp.results = << >> THEN Return(None)
    ELSE LET m == MatchLoop(resp.results, product_number, 1)
         IN  IF m # 0
             THEN Return(Some(normalize_product_url(ClickUriOrEmpty(resp.results[m]))))
             ELSE IF Truthy(resp.results[1].clickUri)
                  THEN Return(Some(normalize_product_url(resp.results[1].clickUri[1])))
                  ELSE Return(None)

search_product(product_number, resp) ==
    IF resp.kind = "RequestError" THEN Return(None)
    ELSE IF resp.kind = "HTTPStatusError" THEN Return(None)
    ELSE IF resp.kind = "MalformedBody" THEN Raise
    ELSE IF resp.results = << >> THEN Return(None)
    ELSE LET m == MatchLoop(resp.results, product_number, 1)
         IN  IF m # 0
             THEN Return(Some(normalize_product_url(ClickUriOrEmpty(resp.results[m]))))
             ELSE IF Truthy(resp.results[1].clickUri)
                  THEN Return(Some(normalize_product_url(resp.results[1].clickUri[1])))
                  ELSE Return(None)

(***************************************************************************)
(* The document tree of a fetched page.                                    *)
(*                                                                         *)
(* An element is [tag, cls, text, kids]: its tag name, its class, the text *)
(* node it starts with and its child elements in document order.  The soup *)
(* is the root element; its kids are the top-level elements of the page.   *)
(***************************************************************************)
El(tag, cls, text, kids) == [tag |-> tag, cls |-> cls, text |-> text, kids |-> kids]

Soup(kids) == El("[document]", "", EmptyStr, kids)

\* The elements below a list of siblings in document order (pre-order), each
\* with the siblings that follow it: [e, after].
RECURSIVE Walk(_)
Walk(ks) ==
    IF ks = << >> THEN << >>
    ELSE <<[e |-> Head(ks), after |-> Tail(ks)]>>
         \o Walk(Head(ks).kids) \o Walk(Tail(ks))

\* tag.find_all(name, class_=cls): every descendant with that tag (and that
\* class, "" for any), in document order, with its following siblings.
FindAllCtx(root, tag, cls) ==
    LET Test(c) == c.e.tag = tag /\ (cls = "" \/ c.e.cls = cls)
    IN  SelectSeq(Walk(root.kids), Test)

\* tag.find(name, class_=cls): the first such descendant, or None.
Find(root, tag, cls) ==
    LET all == FindAllCtx(root, tag, cls)
    IN  IF all = << >> THEN None ELSE Some(all[1].e)

\* A faulty variant: only the adjacent sibling is looked at.
AdjacentSibling(after, tag) ==
    IF after # << >> /\ Head(after).tag = tag THEN Some(Head(after)) ELSE None

\* dt.find_next_sibling(name): the first following sibling with that tag.
RECURSIVE FindNextSibling(_, _)
FindNextSibling(after, tag) ==
    IF after = << >> THEN None
    ELSE IF Head(after).tag = tag THEN Some(Head(after))
         ELSE FindNextSibling(Tail(after), tag)

\* tag.get_text(strip=True): the stripped text nodes below the element,
\* concatenated in document order.
RECURSIVE GetText(_)
RECURSIVE GetTextAll(_)
GetText(e) == Strip(e.text) \o GetTextAll(e.kids)
GetTextAll(ks) ==
    IF ks = << >> THEN EmptyStr ELSE GetText(Head(ks)) \o GetTextAll(Tail(ks))

(***************************************************************************)
(* scrape_product_page                                                     *)
(***************************************************************************)
\* lines 194-196: the name is the text of the first h1.
ExtractName(soup) ==
    LET h1 == Find(soup, "h1", "")
    IN  IF h1 # None THEN Some(GetText(h1[1])) ELSE None

\* A faulty variant: only a nested span of class "price" makes a wrapper.
IsPriceWrapper(price_span) == Find(price_span, "span", "price") # None

\* line 204: price_span.find("span") -- any nested span makes a wrapper.
IsWrapper(price_span) == Find(price_span, "span", "") # None

\* lines 202-210: the loop over the price spans.
RECURSIVE PriceLoop(_)
PriceLoop(spans) ==
    IF spans = << >> THEN None
    ELSE IF IsWrapper(Head(spans).e) THEN PriceLoop(Tail(spans))
         ELSE IF StartsWith(GetText(Head(spans).e), <<"$">>)
              THEN Some(GetText(Head(spans).e))
              ELSE PriceLoop(Tail(spans))

ExtractPrice(soup) == PriceLoop(FindAllCtx(soup, "span", "price"))

\* details[key] = value
DictSet(d, k, v) == {p \in d : p.k # k} \cup {[k |-> k, v |-> v]}

\* lines 218-225: the loop over the list items of the moredetail section.
RECURSIVE MoreDetailLoop(_, _)
MoreDetailLoop(lis, details) ==
    IF lis = << >> THEN details
    ELSE LET li == Head(lis).e
             label_div == Find(li, "div", "label")
             value_div == Find(li, "div", "value")
         IN  IF label_div # None /\ value_div # None
                /\ GetText(label_div[1]) # EmptyStr /\ GetText(value_div[1]) # EmptyStr
             THEN MoreDetailLoop(Tail(lis),
                      DictSet(details, GetText(label_div[1]), GetText(value_div[1])))
             ELSE MoreDetailLoop(Tail(lis), details)

\* lines 229-235: the loop over the dt elements of the document.
RECURSIVE DtLoop(_, _)
DtLoop(dts, details) ==
    IF dts = << >> THEN details
    ELSE LET dt == Head(dts)
             dd == FindNextSibling(dt.after, "dd")
         IN  IF dd # None /\ GetText(dt.e) # EmptyStr /\ GetText(dd[1]) # EmptyStr
             THEN DtLoop(Tail(dts), DictSet(details, GetText(dt.e), GetText(dd[1])))
             ELSE DtLoop(Tail(dts), details)

\* lines 214-237
ExtractDetails(soup) ==
    LET moredetail == Find(soup, "div", "moredetail")
        primary == IF moredetail # None
                   THEN MoreDetailLoop(FindAllCtx(moredetail[1], "li", ""), {})
                   ELSE {}
    IN  IF primary = {} THEN DtLoop(FindAllCtx(soup, "dt", ""), primary)
        ELSE primary

\* A faulty variant: raise_for_status is not called, the body of an error
\* response is parsed like a page.
scrape_product_page_unchecked(purl, product_number, fetched) ==
    IF fetched.kind = "RequestError" THEN Product(product_number, None, Some(purl), None, {})
    ELSE Product(product_number, ExtractName(fetched.page), Some(purl),
                 ExtractPrice(fetched.page), ExtractDetails(fetched.page))

\* The outcome of the page fetch is [kind, page]: "RequestError" (no
\* response), "HTTPStatusError" (a response with a non-success status, page
\* its body) or "ok" (page the parsed body).
scrape_product_page(purl, product_number, fetched) ==
    IF fetched.kind = "HTTPStatusError" THEN Product(product_number, None, Some(purl), None, {})
    ELSE IF fetched.kind = "RequestError" THEN Product(product_number, None, Some(purl), None, {})
    ELSE Product(product_number, ExtractName(fetched.page), Some(purl),
                 ExtractPrice(fetched.page), ExtractDetails(fetched.page))

(***************************************************************************)
(* Inputs.                                                                 *)
(***************************************************************************)
SeqsUpTo(S, n) == UNION {[1..k -> S] : k \in 0..n}

UrlAtoms == {"wholesale.", "www.", "lcbo.com", "example.com", "/b2b_en/", "/en/", "foo"}

Hosts == {"lcbo.com", "example.com"}

\* Addresses given to normalize_product_url: every short sequence of atoms,
\* and every wholesale address of either host followed by such a sequence.
NormalizeInputs ==
    SeqsUpTo(UrlAtoms, MaxUrlLen)
    \cup {pre \o <<"wholesale.", h, "/b2b_en/">> \o rest :
            pre \in {<< >>, <<"https://">>}, h \in Hosts,
            rest \in SeqsUpTo(UrlAtoms, MaxUrlLen)}

ProductNumbers == {<<"1">>, <<"1", "2">>}

\* The identifiers search_product is called with on its own: the empty
\* string (-n "") as well.
SearchNumbers == ProductNumbers \cup {EmptyStr}

UriFoo12 == <<"https://", "www.", "lcbo.com", "/en/", "foo-", "1", "2">>

UriBar3 == <<"https://", "wholesale.", "lcbo.com", "/b2b_en/", "bar-", "3">>

UriBaz1 == <<"https://", "wholesale.", "example.com", "/b2b_en/", "baz-", "1">>

UriWidget12 == <<"https://", "wholesale.", "lcbo.com", "/b2b_en/", "widget-", "1", "2">>

CandidateUris == {None, Some(EmptyStr), Some(UriFoo12), Some(UriBar3), Some(UriBaz1)}

SkuLists == {<< >>, << <<"1", "2">> >>, << <<"3">>, <<"1">> >>}

Candidates == {Candidate(u, k) : u \in CandidateUris, k \in SkuLists}

ErrorKinds == {"RequestError", "HTTPStatusError"}

SearchResponses ==
    {[kind |-> k, results |-> << >>] : k \in ErrorKinds \cup {"MalformedBody"}}
    \cup {[kind |-> "ok", results |-> r] : r \in SeqsUpTo(Candidates, MaxResults)}

\* Pages for the price extraction.
PriceTexts == {<<"$", "9">>, <<" ", "$", "8", " ">>, <<"7">>}

InnerElems ==
    {El("span", "price", t, << >>) : t \in PriceTexts}
    \cup {El("span", "unit", <<"ea">>, << >>),
          El("b", "", <<"$", "5">>, << >>),
          El("b", "", EmptyStr, <<El("span", "price", <<"$", "6">>, << >>)>>),
          El("div", "price", <<"$", "4">>, << >>)}

PriceElems ==
    {El("span", "price", t, k) : t \in PriceTexts, k \in SeqsUpTo(InnerElems, 1)}
    \cup {El("span", "price-wrapper", EmptyStr, <<i>>) : i \in InnerElems}

PricePages == {Soup(ks) : ks \in SeqsUpTo(PriceElems, MaxTop)}

\* Pages for the attribute extraction.
Li(label, value) ==
    El("li", "", EmptyStr,
       <<El("div", "label", label, << >>), El("div", "value", value, << >>)>>)

LiKinds ==
    {Li(<<"A">>, <<"x">>), Li(<<" ", "A">>, <<"y", " ">>), Li(<<"B">>, <<"x">>),
     Li(<<"A">>, <<" ">>),
     El("li", "", EmptyStr, <<El("div", "label", <<"A">>, << >>)>>)}

MoreDetail(lis) ==
    El("div", "moredetail", EmptyStr, <<El("ul", "", EmptyStr, lis)>>)

DlKinds ==
    {El("dt", "", <<"A">>, << >>), El("dt", "", <<"B", " ">>, << >>),
     El("dd", "", <<"x">>, << >>), El("dd", "", <<" ", "y">>, << >>),
     El("dd", "", <<" ">>, << >>), El("p", "", <<"z">>, << >>)}

Dl(items) == El("dl", "", EmptyStr, items)

AttrPages ==
    {Soup(md \o dl) :
        md \in {<< >>} \cup {<<MoreDetail(lis)>> : lis \in SeqsUpTo(LiKinds, MaxLi)},
        dl \in {<< >>,
                <<Dl(<<El("dt", "", <<"B">>, << >>), El("dd", "", <<"y">>, << >>)>>)>>,
                <<Dl(<<El("dt", "", <<"A">>, << >>), El("dd", "", <<"y">>, << >>)>>)>>}}
    \cup
    {Soup(md \o <<Dl(items)>>) :
        md \in {<< >>, <<MoreDetail(<<Li(<<"A">>, <<" ">>)>>)>>,
                <<MoreDetail(<<Li(<<"B">>, <<"x">>)>>)>>},
        items \in SeqsUpTo(DlKinds, MaxDl)}

\* The page of the specification's end-to-end scenario.
ScenarioPage ==
    Soup(<<El("h1", "", <<" ", "Widget Deluxe", " ">>, << >>),
           El("span", "price-wrapper", EmptyStr,
              <<El("span", "price", <<"$", "9">>, << >>)>>),
           MoreDetail(<<Li(<<"Size">>, <<"750 mL">>), Li(<<"Origin">>, <<"Canada">>)>>)>>)

ErrorPage == Soup(<<El("h1", "", <<"Not Found">>, << >>)>>)

\* The inputs of a run of main.
MainResponses ==
    {[kind |-> k, results |-> << >>] : k \in ErrorKinds \cup {"MalformedBody", "ok"}}
    \cup {[kind |-> "ok", results |-> <<Candidate(Some(UriWidget12), << <<"1", "2">> >>)>>],
          [kind |-> "ok", results |-> <<Candidate(None, << >>)>>]}

MainFetches ==
    {[kind |-> "RequestError", page |-> Soup(<< >>)],
     [kind |-> "HTTPStatusError", page |-> ErrorPage],
     [kind |-> "ok", page |-> ScenarioPage],
     [kind |-> "ok", page |-> Soup(<< >>)]}

(***************************************************************************)
(* A run of main.                                                          *)
(***************************************************************************)
Idle == /\ op = "none" /\ arg = None /\ returned = FALSE /\ ret = None

Init ==
    /\ numbers \in SeqsUpTo(ProductNumbers, MaxNumbers)
    /\ pc = "start"
    /\ index = 0
    /\ url = None
    /\ products = << >>
    /\ client = "none"
    /\ created = 0
    /\ netlog = << >>
    /\ raised = FALSE
    /\ output = None
    /\ rc = None
    /\ Idle

\* lines 155-157: no product number was given, main returns 1.
NoNumbers ==
    /\ pc = "start"
    /\ numbers = << >>
    /\ pc' = "done"
    /\ rc' = Some(1)
    /\ UNCHANGED <<numbers, index, url, products, client, created, netlog, raised, output>>
    /\ UNCHANGED callVars

\* line 170: LcboScraper() builds the client and the with block is entered.
EnterScraper ==
    /\ pc = "start"
    /\ numbers # << >>
    /\ client' = "open"
    /\ created' = created + 1
    /\ index' = 1
    /\ pc' = "search"
    /\ UNCHANGED <<numbers, url, products, netlog, raised, output, rc>>
    /\ UNCHANGED callVars

\* The end of one iteration of the loop of lines 171-183.
NextIteration ==
    /\ index' = index + 1
    /\ pc' = IF index = Len(numbers) THEN "exit" ELSE "search"

\* lines 176-177 and 250-253: get_product calls search_product; without an
\* address the bare record is appended, an exception leaves the with block.
GetProductSearch ==
    /\ pc = "search"
    /\ \E resp \in MainResponses :
        LET product_number == numbers[index]
            found == search_product(product_number, resp)
        IN  /\ netlog' = Append(netlog, [op |-> "search", n |-> index,
                                         target |-> product_number, resp |-> resp])
            /\ IF found.kind = "raise"
               THEN /\ raised' = TRUE
                    /\ pc' = "exit"
                    /\ UNCHANGED <<index, url, products>>
               ELSE IF ~Truthy(found.value)
               THEN /\ products' = Append(products, BareProduct(product_number))
                    /\ NextIteration
                    /\ UNCHANGED <<url, raised>>
               ELSE /\ url' = found.value
                    /\ pc' = "fetch"
                    /\ UNCHANGED <<index, products, raised>>
    /\ UNCHANGED <<numbers, client, created, output, rc>>
    /\ UNCHANGED callVars

\* lines 255 and 177: get_product returns what scrape_product_page returns.
GetProductScrape ==
    /\ pc = "fetch"
    /\ \E fetched \in MainFetches :
        /\ netlog' = Append(netlog, [op |-> "fetch", n |-> index,
                                     target |-> url[1], resp |-> fetched])
        /\ products' = Append(products,
                              scrape_product_page(url[1], numbers[index], fetched))
    /\ url' = None
    /\ NextIteration
    /\ UNCHANGED <<numbers, client, created, raised, output, rc>>
    /\ UNCHANGED callVars

\* A faulty variant: the client is closed after the loop, not by __exit__.
ExitScraperNoFinally ==
    /\ pc = "exit"
    /\ client' = IF raised THEN client ELSE "closed"
    /\ pc' = IF raised THEN "done" ELSE "output"
    /\ rc' = IF raised THEN Some(1) ELSE rc
    /\ UNCHANGED <<numbers, index, url, products, created, netlog, raised, output>>
    /\ UNCHANGED callVars

\* lines 77-83 and 170: leaving the with block, normally or by an exception,
\* calls __exit__, which closes the client; an exception then ends main.
ExitScraper ==
    /\ pc = "exit"
    /\ client' = "closed"
    /\ pc' = IF raised THEN "done" ELSE "output"
    /\ rc' = IF raised THEN Some(1) ELSE rc
    /\ UNCHANGED <<numbers, index, url, products, created, netlog, raised, output>>
    /\ UNCHANGED callVars

\* lines 185-191: the records are handed to the output stage, main returns 0.
Output ==
    /\ pc = "output"
    /\ output' = Some(products)
    /\ rc' = Some(0)
    /\ pc' = "done"
    /\ UNCHANGED <<numbers, index, url, products, client, created, netlog, raised>>
    /\ UNCHANGED callVars

Next ==
    \/ NoNumbers
    \/ EnterScraper
    \/ GetProductSearch
    \/ GetProductScrape
    \/ ExitScraper
    \/ Output

Spec == Init /\ [][Next]_vars

(***************************************************************************)
(* One call of a function of the scraper on a drawn input.                 *)
(***************************************************************************)
MainIdle ==
    /\ numbers = << >> /\ pc = "start" /\ index = 0 /\ url = None
    /\ products = << >> /\ client = "none" /\ created = 0 /\ netlog = << >>
    /\ raised = FALSE /\ output = None /\ rc = None

InitResolve ==
    /\ MainIdle
    /\ returned = FALSE
    /\ ret = None
    /\ \/ /\ op = "normalize_product_url"
          /\ arg \in NormalizeInputs
       \/ /\ op = "search_product"
          /\ arg \in {[product_number |-> pn, resp |-> r] :
                        pn \in SearchNumbers, r \in SearchResponses}

CallNormalize ==
    /\ op = "normalize_product_url"
    /\ ~returned
    /\ ret' = normalize_product_url(arg)
    /\ returned' = TRUE
    /\ UNCHANGED <<op, arg>>
    /\ UNCHANGED mainVars

CallSearch ==
    /\ op = "search_product"
    /\ ~returned
    /\ ret' = search_product(arg.product_number, arg.resp)
    /\ returned' = TRUE
    /\ UNCHANGED <<op, arg>>
    /\ UNCHANGED mainVars

NextResolve == CallNormalize \/ CallSearch

SpecResolve == InitResolve /\ [][NextResolve]_vars

InitExtract ==
    /\ MainIdle
    /\ returned = FALSE
    /\ ret = None
    /\ op = "scrape_product_page"
    /\ arg \in {[url |-> UriFoo12, product_number |-> <<"1", "2">>,
                 fetched |-> [kind |-> "ok", page |-> p]] :
                    p \in PricePages \cup AttrPages}

CallScrape ==
    /\ op = "scrape_product_page"
    /\ ~returned
    /\ ret' = scrape_product_page(arg.url, arg.product_number, arg.fetched)
    /\ returned' = TRUE
    /\ UNCHANGED <<op, arg>>
    /\ UNCHANGED mainVars

NextExtract == CallScrape

SpecExtract == InitExtract /\ [][NextExtract]_vars

(***************************************************************************)
(* Address normalization.                                                  *)
(***************************************************************************)
\* Position i of u starts "wholesale.<host>/b2b_en/" for a host of hosts.
IsWholesaleAt(u, i, hosts) ==
    /\ i >= 1
    /\ i + 2 <= Len(u)
    /\ u[i] = "wholesale."
    /\ u[i + 1] \in hosts
    /\ u[i + 2] = "/b2b_en/"

\* u with each wholesale prefix of a host of hosts rewritten to the consumer
\* prefix of the same host, everything else kept.
Rewritten(u, hosts) ==
    [i \in 1..Len(u) |->
        IF IsWholesaleAt(u, i, hosts) THEN "www."
        ELSE IF IsWholesaleAt(u, i - 2, hosts) THEN "/en/"
        ELSE u[i]]

NormalizeReturned == op = "normalize_product_url" /\ returned

\* C9, as claimed: an address of the form wholesale.<host>/b2b_en/<rest> is
\* rewritten to www.<host>/en/<rest> for every host, the remainder kept, and
\* every other address is returned unchanged.
C9_AnyHostRewritten ==
    NormalizeReturned => ret = Rewritten(arg, Hosts)

\* C9, amended: only the literal wholesale.lcbo.com/b2b_en/ is rewritten, at
\* each of its occurrences, to www.lcbo.com/en/ with everything else kept; an
\* address without that literal, a wholesale address of another host
\* included, is returned unchanged.
C9_LcboHostRewritten ==
    NormalizeReturned => ret = Rewritten(arg, {"lcbo.com"})

\* C9 witness: a wholesale lcbo.com address has been rewritten, the rest of
\* its path kept.
C9_Witness ==
    /\ NormalizeReturned
    /\ arg = <<"https://", "wholesale.", "lcbo.com", "/b2b_en/", "foo">>
    /\ ret = <<"https://", "www.", "lcbo.com", "/en/", "foo">>

(***************************************************************************)
(* Candidate selection.                                                    *)
(***************************************************************************)
SearchReturned == op = "search_product" /\ returned

\* The candidate's SKU list holds the identifier verbatim or its URI (empty
\* when the candidate carries none) holds the identifier as a substring.
CandidateMatches(c, pn) ==
    \/ \E k \in 1..Len(c.ec_skus) : c.ec_skus[k] = pn
    \/ Contains(IF c.clickUri = None THEN EmptyStr ELSE c.clickUri[1], pn)

\* The first matching candidate in ranked order, the first candidate when
\* none matches (results is not empty).
SelectedCandidate(results, pn) ==
    LET M == {i \in 1..Len(results) : CandidateMatches(results[i], pn)}
    IN  IF M = {} THEN results[1]
        ELSE results[CHOOSE i \in M : \A j \in M : i <= j]

\* C2, as claimed: on a well-formed response the address of the first
\* matching candidate, or of the first candidate when none matches, is
\* returned, and resolution fails only for zero candidates.
C2_FailsOnlyWithoutCandidates ==
    (SearchReturned /\ arg.resp.kind = "ok") =>
        IF arg.resp.results = << >> THEN ret = Return(None)
        ELSE LET sel == SelectedCandidate(arg.resp.results, arg.product_number)
             IN  /\ ret.kind = "return"
                 /\ Truthy(ret.value)
                 /\ sel.clickUri # None
                 /\ ret.value[1] = normalize_product_url(sel.clickUri[1])

\* C2, amended: the first matching candidate in ranked order is selected, the
\* first candidate when none matches, and the normalized URI of the selected
\* candidate is returned; no usable address (None or the empty string) is
\* returned for zero candidates and also when the selected candidate carries
\* no URI or an empty one.
C2_SelectsFirstMatchElseFirst ==
    (SearchReturned /\ arg.resp.kind = "ok") =>
        IF arg.resp.results = << >> THEN ret = Return(None)
        ELSE LET sel == SelectedCandidate(arg.resp.results, arg.product_number)
             IN  IF Truthy(sel.clickUri)
                 THEN ret = Return(Some(normalize_product_url(sel.clickUri[1])))
                 ELSE ret.kind = "return" /\ ~Truthy(ret.value)

\* C2 witness: the second candidate matches by its URI alone, the first
\* matches neither way, and the second candidate's address was returned.
C2_Witness ==
    /\ SearchReturned
    /\ arg.product_number = <<"1">>
    /\ arg.resp.kind = "ok"
    /\ arg.resp.results = <<Candidate(Some(UriBar3), << <<"1", "2">> >>),
                            Candidate(Some(UriBaz1), << >>)>>
    /\ ret = Return(Some(UriBaz1))

(***************************************************************************)
(* Price extraction.                                                       *)
(***************************************************************************)
ScrapeReturned == op = "scrape_product_page" /\ returned

\* Some element below e has one of the tags and one of the classes.
HasNested(e, tags, classes) ==
    \E i \in 1..Len(Walk(e.kids)) :
        Walk(e.kids)[i].e.tag \in tags /\ Walk(e.kids)[i].e.cls \in classes

AllTags == {"span", "b", "div", "li", "ul", "dl", "dt", "dd", "p", "h1"}

AllClasses == {"", "price", "unit", "price-wrapper", "label", "value", "moredetail"}

\* The text of the first span of class "price", in document order, that is
\* not a wrapper and whose text begins with "$"; None without one.  A span
\* is a wrapper when it has a nested element of wrapTags and wrapClasses.
FirstLeafPrice(soup, wrapTags, wrapClasses) ==
    LET spans == FindAllCtx(soup, "span", "price")
        L == {i \in 1..Len(spans) :
                /\ ~HasNested(spans[i].e, wrapTags, wrapClasses)
                /\ GetText(spans[i].e) # EmptyStr
                /\ GetText(spans[i].e)[1] = "$"}
    IN  IF L = {} THEN None
        ELSE Some(GetText(spans[CHOOSE i \in L : \A j \in L : i <= j].e))

\* C7, as claimed: only a price element holding a nested price-tagged element
\* is skipped as a wrapper; the price is the text of the first remaining
\* element whose trimmed text begins with "$", absent without one.
C7_WrapperHoldsNestedPrice ==
    ScrapeReturned =>
        ret.price = FirstLeafPrice(arg.fetched.page, AllTags, {"price"})

\* C7, amended: a price span holding any nested span element, price-tagged or
\* not, is skipped as a wrapper; the price is the text of the first remaining
\* price span whose trimmed text begins with "$", absent without one.
C7_WrapperHoldsNestedSpan ==
    ScrapeReturned =>
        ret.price = FirstLeafPrice(arg.fetched.page, {"span"}, AllClasses)

\* C7 witness: a price span wrapping a nested price span was skipped and the
\* price is the trimmed text of the nested one, which follows a leaf without
\* a "$".
C7_Witness ==
    /\ ScrapeReturned
    /\ arg.fetched.page =
         Soup(<<El("span", "price", <<"7">>, << >>),
                El("span", "price", <<"$", "9">>,
                   <<El("span", "price", <<" ", "$", "8", " ">>, << >>)>>)>>)
    /\ ret.price = Some(<<"$", "8">>)

(***************************************************************************)
(* Attribute extraction.                                                   *)
(***************************************************************************)
\* The pairs of a sequence of [ok, k, v] entries whose sides are both not
\* empty, a later pair replacing an earlier one of the same label.
LastWins(entries) ==
    LET V == {i \in 1..Len(entries) :
                entries[i].ok /\ entries[i].k # EmptyStr /\ entries[i].v # EmptyStr}
    IN  {[k |-> entries[i].k, v |-> entries[i].v] :
            i \in {i \in V : \A j \in V : j > i => entries[j].k # entries[i].k}}

\* The first div of some class below a list item, None without one.
FirstDiv(li, cls) ==
    LET W == Walk(li.kids)
        D == {i \in 1..Len(W) : W[i].e.tag = "div" /\ W[i].e.cls = cls}
    IN  IF D = {} THEN None ELSE Some(W[CHOOSE i \in D : \A j \in D : i <= j].e)

\* The mapping of the "more details" section: the list items of the first
\* moredetail div that hold a label and a value.
PrimaryMapping(soup) ==
    LET md == FindAllCtx(soup, "div", "moredetail")
        lis == IF md = << >> THEN << >> ELSE FindAllCtx(md[1].e, "li", "")
        entry(i) ==
            LET l == FirstDiv(lis[i].e, "label")
                v == FirstDiv(lis[i].e, "value")
            IN  IF l = None \/ v = None
                THEN [ok |-> FALSE, k |-> EmptyStr, v |-> EmptyStr]
                ELSE [ok |-> TRUE, k |-> GetText(l[1]), v |-> GetText(v[1])]
    IN  LastWins([i \in 1..Len(lis) |-> entry(i)])

\* The mapping of the definition terms: each dt with the dd that directly
\* follows it (adjacent), or with the first dd among its following siblings.
FallbackMapping(soup, adjacent) ==
    LET dts == FindAllCtx(soup, "dt", "")
        entry(i) ==
            LET after == dts[i].after
                D == IF adjacent
                     THEN {j \in 1..Len(after) : j = 1 /\ after[j].tag = "dd"}
                     ELSE {j \in 1..Len(after) : after[j].tag = "dd"}
            IN  IF D = {}
                THEN [ok |-> FALSE, k |-> EmptyStr, v |-> EmptyStr]
                ELSE [ok |-> TRUE, k |-> GetText(dts[i].e),
                      v |-> GetText(after[CHOOSE j \in D : \A m \in D : j <= m])]
    IN  LastWins([i \in 1..Len(dts) |-> entry(i)])

\* C8, as claimed: the primary mapping when it is not empty, else the
\* fallback mapping in which a dt is paired only with the dd immediately
\* following it; an empty mapping when both are empty.
C8_FallbackPairsAdjacent ==
    ScrapeReturned =>
        ret.details = IF PrimaryMapping(arg.fetched.page) # {}
                      THEN PrimaryMapping(arg.fetched.page)
                      ELSE FallbackMapping(arg.fetched.page, TRUE)

\* C8, amended: the primary mapping when it is not empty, else the fallback
\* mapping in which a dt is paired with the first dd among its following
\* siblings, adjacent or not; pairs with an empty side are skipped, the last
\* value of a label is kept, and the mapping is empty when both are empty.
C8_FallbackPairsNextDd ==
    ScrapeReturned =>
        ret.details = IF PrimaryMapping(arg.fetched.page) # {}
                      THEN PrimaryMapping(arg.fetched.page)
                      ELSE FallbackMapping(arg.fetched.page, FALSE)

\* C8 witness: the primary strategy found only a pair with an empty value,
\* and the result is the fallback mapping, the last value of label A kept.
C8_Witness ==
    /\ ScrapeReturned
    /\ arg.fetched.page =
         Soup(<<MoreDetail(<<Li(<<"A">>, <<" ">>)>>),
                Dl(<<El("dt", "", <<"A">>, << >>), El("dd", "", <<"x">>, << >>),
                     El("dt", "", <<"A">>, << >>), El("dd", "", <<" ", "y">>, << >>)>>)>>)
    /\ ret.details = {[k |-> <<"A">>, v |-> <<"y">>]}

(***************************************************************************)
(* The run of main.                                                        *)
(***************************************************************************)
\* The positions of the network calls of one kind made for the n-th number.
Calls(kind, n) == {k \in 1..Len(netlog) : netlog[k].op = kind /\ netlog[k].n = n}

\* The search call ended in a transport failure, in a non-success status or
\* in a well-formed response without candidates.
NoAddress(resp) ==
    \/ resp.kind = "RequestError"
    \/ resp.kind = "HTTPStatusError"
    \/ resp.kind = "ok" /\ resp.results = << >>

\* C1: once the search call of an identifier has ended in a transport
\* failure, a non-success status or zero candidates, get_product has
\* returned a record with only the identifier set: name, address and price
\* absent, attributes empty, and no page was fetched for it.
C1_NoAddressGivesBareRecord ==
    \A k \in 1..Len(netlog) :
        (netlog[k].op = "search" /\ NoAddress(netlog[k].resp)) =>
            /\ Len(products) >= netlog[k].n
            /\ products[netlog[k].n] =
                 [product_number |-> numbers[netlog[k].n], name |-> None,
                  url |-> None, price |-> None, details |-> {}]
            /\ Calls("fetch", netlog[k].n) = {}

\* C1 witness: a run of two identifiers has ended whose searches ended in a
\* non-success status and in zero candidates.
C1_Witness ==
    /\ pc = "done"
    /\ Len(netlog) = 2
    /\ netlog[1].resp.kind = "HTTPStatusError"
    /\ netlog[2].resp = [kind |-> "ok", results |-> << >>]
    /\ Len(products) = 2

\* C3, as claimed: no outcome of the search call or of the page fetch makes
\* an exception leave get_product.
C3_NothingRaisesPastGetProduct == raised = FALSE

\* C4, as claimed: a run over a non-empty list of identifiers ends with one
\* record per identifier handed to the output stage, in input order, the
\* i-th record carrying the i-th identifier.
C4_OneRecordPerIdentifier ==
    (pc = "done" /\ numbers # << >>) =>
        /\ output # None
        /\ Len(output[1]) = Len(numbers)
        /\ \A i \in 1..Len(numbers) : output[1][i].product_number = numbers[i]

\* C5: once the page of an identifier has been fetched, scrape_product_page
\* has returned a record with the identifier and the address it was given;
\* after a transport failure or a non-success status the name and the price
\* are absent and the attributes empty, whatever the body of the response.
C5_FetchErrorGivesPartialRecord ==
    \A k \in 1..Len(netlog) :
        netlog[k].op = "fetch" =>
            /\ Len(products) >= netlog[k].n
            /\ products[netlog[k].n].product_number = numbers[netlog[k].n]
            /\ products[netlog[k].n].url = Some(netlog[k].target)
            /\ netlog[k].resp.kind \in ErrorKinds =>
                 /\ products[netlog[k].n].name = None
                 /\ products[netlog[k].n].price = None
                 /\ products[netlog[k].n].details = {}

\* C5 witness: the fetch got a non-success status whose body holds a heading,
\* and the record of that identifier has no name.
C5_Witness ==
    /\ Len(netlog) = 2
    /\ netlog[2].op = "fetch"
    /\ netlog[2].resp = [kind |-> "HTTPStatusError", page |-> ErrorPage]
    /\ Len(products) = 1
    /\ products[1].name = None
    /\ products[1].url = Some(<<"https://", "www.", "lcbo.com", "/en/", "widget-", "1", "2">>)

\* C6: at most one client is ever created; it is open only inside the with
\* block; and a run over at least one identifier ends with the one client it
\* created closed, after normal completion and after an exception alike.
C6_ClientClosedOnEveryExit ==
    /\ created <= 1
    /\ client = "open" => pc \in {"search", "fetch", "exit"}
    /\ (pc \in {"output", "done"} /\ numbers # << >>) =>
          created = 1 /\ client = "closed"

\* C6 witness: the run ended by an exception during the second identifier
\* and the client is closed.
C6_Witness ==
    /\ pc = "done"
    /\ raised
    /\ Len(products) = 1
    /\ client = "closed"

\* The calls issued so far are in order: at most one search and one fetch per
\* identifier, a fetch only after that identifier's search returned the
\* address it fetches, no call for an identifier before the records of all
\* earlier identifiers are built, none repeated after a failure.
C10_IssuedCallsInOrder ==
    /\ \A n \in 1..Len(numbers) :
          /\ Cardinality(Calls("search", n)) <= 1
          /\ Cardinality(Calls("fetch", n)) <= 1
          /\ n <= Len(products) => Cardinality(Calls("search", n)) = 1
    /\ \A k \in 1..Len(netlog) :
          /\ netlog[k].n \in 1..Len(numbers)
          /\ netlog[k].n <= Len(products) + 1
          /\ \A j \in 1..(k - 1) : netlog[j].n <= netlog[k].n
          /\ netlog[k].op = "fetch" =>
                /\ k > 1
                /\ netlog[k - 1].op = "search"
                /\ netlog[k - 1].n = netlog[k].n
                /\ ~NoAddress(netlog[k - 1].resp)
                /\ search_product(numbers[netlog[k].n], netlog[k - 1].resp)
                     = Return(Some(netlog[k].target))

\* C10, as claimed: the calls are issued in order and, when the run has
\* ended, exactly one search request was issued for each identifier.
C10_OneSearchPerIdentifier ==
    /\ C10_IssuedCallsInOrder
    /\ pc = "done" =>
          \A n \in 1..Len(numbers) : Cardinality(Calls("search", n)) = 1

====
